---- MODULE Spec2Model ----
(***************************************************************************)
(* A model of server.js: the Express route handlers over the Restaurant    *)
(* collection and the runServer / closeServer lifecycle.                   *)
(*                                                                         *)
(* The Mongoose collection is the variable store, a function from the ids  *)
(* of the stored documents to the documents.  Ids are assigned by the      *)
(* store from the counter nextId and are written as strings.  A handler is *)
(* one action: it issues at most one store call and writes its response(s) *)
(* from the call's outcome.  A store call settles as Mongoose documents it *)
(* or rejects (parameter ok = FALSE, or the connection is not open).       *)
(***************************************************************************)
EXTENDS Integers, Sequences, FiniteSets, TLC

VARIABLES
    store,       \* the restaurants collection: id -> document
    nextId,      \* the number the store gives the next created document
    storeState,  \* mongoose.connection.readyState
    server,      \* the module-level `server` and the state of its socket
    startPc,     \* where the promise returned by runServer stands
    stopPc,      \* where the promise returned by closeServer stands
    req,         \* the request the exchange in progress dispatched
    storeCall,   \* what the store call of that request did
    responses,   \* the writes the handler attempted on res, in order
    threw        \* an exception left the handler's promise chain uncaught

vars ==
    <<store, nextId, storeState, server, startPc, stopPc, req, storeCall,
      responses, threw>>

lifecycle == <<storeState, server, startPc, stopPc>>

exchange == <<req, storeCall, responses, threw>>

----------------------------------------------------------------------------
(* Bounds of the model. *)

\* ids the store can assign in the specification of the server
MaxIds == 2

\* size of the largest preloaded collection in the listing specification
MaxColl == 11

----------------------------------------------------------------------------
(* Values. *)

\* a property that was not sent, or a document path that was never set
Undefined == "undefined"

\* a path id that does not cast to an ObjectId
BadId == "not-an-objectid"

\* a request without a path id (GET /restaurants, POST /restaurants)
NoId == ""

\* the document paths of a restaurant, as the create call names them
Fields == {"name", "borough", "cuisine", "address", "grades"}

\* the id of the n-th document the store creates
IdOf(n) == ToString(n)

Min(a, b) == IF a < b THEN a ELSE b

\* a request body without keys
EmptyBody == [k \in {} |-> ""]

\* the parsed JSON body with the keys ks, all carrying v, and the key id
\* carrying bid unless bid is NoId
Body(bid, ks, v) ==
    [k \in ks \cup (IF bid = NoId THEN {} ELSE {"id"}) |->
        IF k = "id" THEN bid ELSE v]

\* req.body[k]: undefined for a key that was not sent
Prop(body, k) == IF k \in DOMAIN body THEN body[k] ELSE Undefined

\* JavaScript truthiness of an id: undefined and the empty string are falsy
Truthy(x) == x # Undefined /\ x # ""

----------------------------------------------------------------------------
(* Responses. *)

ResJson(status, message) ==
    [status |-> status, kind |-> "json", message |-> message, items |-> <<>>]

ResText(status, message) ==
    [status |-> status, kind |-> "text", message |-> message, items |-> <<>>]

ResEnd(status) ==
    [status |-> status, kind |-> "empty", message |-> "", items |-> <<>>]

ResRepr(status, repr) ==
    [status |-> status, kind |-> "repr", message |-> "", items |-> <<repr>>]

ResList(reprs) ==
    [status |-> 200, kind |-> "list", message |-> "", items |-> reprs]

InternalServerError == ResJson(500, "Internal server error")

NotFoundResponse == ResJson(404, "Not Found")

----------------------------------------------------------------------------
(* The store and the document methods. *)

\* restaurant.apiRepr(): the fields a stored document exposes
apiRepr(id, doc) ==
    [id |-> id, name |-> doc.name, borough |-> doc.borough,
     cuisine |-> doc.cuisine, address |-> doc.address, grades |-> doc.grades]

\* the number of documents GET /restaurants asks for
Limit == 10

\* the ids of the stored documents in the order the store assigned them
StoredIds(s, nid) ==
    SelectSeq([i \in 1..(nid - 1) |-> IdOf(i)], LAMBDA x : x \in DOMAIN s)

\* a find() without limit: every document of the collection
FindNoLimit(s, nid) == StoredIds(s, nid)

\* Restaurant.find().limit(10): the first documents of the collection
FindLimit(s, nid) ==
    SubSeq(StoredIds(s, nid), 1, Min(Len(StoredIds(s, nid)), Limit))

\* a query by _id rejects with a CastError when the id is no ObjectId
WellFormed(id) == id # BadId

\* the store call of a handler settles instead of rejecting
Settles(ok) == ok /\ storeState = "connected"

\* Restaurant.create(fields): a new document under the next id
Create(s, nid, fields) ==
    [i \in DOMAIN s \cup {IdOf(nid)} |-> IF i = IdOf(nid) THEN fields ELSE s[i]]

\* {$set: upd} applied to one document: the paths of upd take upd's values
SetPaths(doc, upd) ==
    [f \in Fields |-> IF f \in DOMAIN upd THEN upd[f] ELSE doc[f]]

\* Restaurant.findByIdAndUpdate(id, {$set: upd}): no document, no change
FindByIdAndUpdate(s, id, upd) ==
    IF id \in DOMAIN s THEN [s EXCEPT ![id] = SetPaths(@, upd)] ELSE s

\* a removal that leaves the document in the collection
RemoveNothing(s, id) == s

\* Restaurant.findByIdAndRemove(id): no document, no change
FindByIdAndRemove(s, id) == [i \in DOMAIN s \ {id} |-> s[i]]

----------------------------------------------------------------------------
(* The route handlers. *)

Request(method, id, body) == [method |-> method, id |-> id, body |-> body]

NoRequest == Request("NONE", NoId, EmptyBody)

\* a request reaches a handler only through the listening socket; the model
\* follows one exchange at a time
Dispatchable == server = "listening" /\ req = NoRequest

\* app.get('/restaurants')
GetRestaurants(ok) ==
    /\ Dispatchable
    /\ req' = Request("GET_LIST", NoId, EmptyBody)
    /\ IF Settles(ok)
       THEN /\ storeCall' = "settled"
            /\ LET found == FindLimit(store, nextId)
               IN  responses' =
                     <<ResList([i \in 1..Len(found) |->
                                  apiRepr(found[i], store[found[i]])])>>
       ELSE /\ storeCall' = "rejected"
            /\ responses' = <<InternalServerError>>
    /\ threw' = FALSE
    /\ UNCHANGED <<store, nextId, lifecycle>>

\* a handler that answers 404 when findById finds no document
GetRestaurantByIdOr404(id, ok) ==
    /\ Dispatchable
    /\ req' = Request("GET", id, EmptyBody)
    /\ IF Settles(ok) /\ WellFormed(id)
       THEN /\ storeCall' = "settled"
            /\ responses' =
                 IF id \in DOMAIN store
                 THEN <<ResRepr(200, apiRepr(id, store[id]))>>
                 ELSE <<NotFoundResponse>>
       ELSE /\ storeCall' = "rejected"
            /\ responses' = <<InternalServerError>>
    /\ threw' = FALSE
    /\ UNCHANGED <<store, nextId, lifecycle>>

\* app.get('/restaurants/:id'): findById resolves with null when no document
\* has the id, null.apiRepr() throws inside the then callback, and the catch
\* callback answers 500
GetRestaurantById(id, ok) ==
    /\ Dispatchable
    /\ req' = Request("GET", id, EmptyBody)
    /\ IF Settles(ok) /\ WellFormed(id)
       THEN /\ storeCall' = "settled"
            /\ responses' =
                 IF id \in DOMAIN store
                 THEN <<ResRepr(200, apiRepr(id, store[id]))>>
                 ELSE <<InternalServerError>>
       ELSE /\ storeCall' = "rejected"
            /\ responses' = <<InternalServerError>>
    /\ threw' = FALSE
    /\ UNCHANGED <<store, nextId, lifecycle>>

\* the required fields checked in another order
requiredFieldsReversed == <<"cuisine", "borough", "name">>

requiredFields == <<"name", "borough", "cuisine">>

\* the index of the first required field that is no key of the body, or 0
FirstMissing(body) ==
    LET missing == {i \in 1..Len(requiredFields) : requiredFields[i] \notin DOMAIN body}
    IN  IF missing = {} THEN 0 ELSE CHOOSE i \in missing : \A j \in missing : i <= j

\* the 400 text of POST; the source quotes the field with backticks
MissingMessage(field) == "Missing '" \o field \o "' in request body"

\* the document POST hands to Restaurant.create
CreateFields(body) == [f \in Fields |-> Prop(body, f)]

\* app.post('/restaurants')
PostRestaurant(body, ok) ==
    /\ Dispatchable
    /\ (FirstMissing(body) = 0 /\ Settles(ok)) => nextId <= MaxIds
    /\ req' = Request("POST", NoId, body)
    /\ threw' = FALSE
    /\ IF FirstMissing(body) # 0
       THEN /\ storeCall' = "none"
            /\ responses' =
                 <<ResText(400, MissingMessage(requiredFields[FirstMissing(body)]))>>
            /\ UNCHANGED <<store, nextId>>
       ELSE IF Settles(ok)
       THEN /\ storeCall' = "settled"
            /\ store' = Create(store, nextId, CreateFields(body))
            /\ nextId' = nextId + 1
            /\ responses' =
                 <<ResRepr(201, apiRepr(IdOf(nextId), CreateFields(body)))>>
       ELSE /\ storeCall' = "rejected"
            /\ responses' = <<InternalServerError>>
            /\ UNCHANGED <<store, nextId>>
    /\ UNCHANGED lifecycle

\* req.params.id && req.body.id && req.params.id === req.body.id
IdsMatch(id, body) ==
    Truthy(id) /\ Truthy(Prop(body, "id")) /\ id = Prop(body, "id")

MismatchMessage(id, body) ==
    "Request path id (" \o id \o ") and request body id ("
        \o Prop(body, "id") \o ") must match"

\* a list of updateable fields that lets grades through
updateableFieldsWithGrades == {"name", "borough", "cuisine", "address", "grades"}

updateableFields == {"name", "borough", "cuisine", "address"}

\* toUpdate: the updateable fields that are keys of the body
ToUpdate(body) == [f \in updateableFields \cap DOMAIN body |-> body[f]]

\* app.put('/restaurants/:id'): the 400 of the id check is not returned, so
\* the update is issued all the same and its callback writes a second time;
\* res.json on a sent response throws, res.end on it does not
PutRestaurant(id, body, ok) ==
    /\ Dispatchable
    /\ req' = Request("PUT", id, body)
    /\ LET rejected == ~IdsMatch(id, body)
           first == IF rejected
                    THEN <<ResJson(400, MismatchMessage(id, body))>>
                    ELSE <<>>
       IN  IF Settles(ok) /\ WellFormed(id)
           THEN /\ storeCall' = "settled"
                /\ store' = FindByIdAndUpdate(store, id, ToUpdate(body))
                /\ responses' = first \o <<ResEnd(204)>>
                /\ threw' = FALSE
           ELSE /\ storeCall' = "rejected"
                /\ responses' = first \o <<InternalServerError>>
                /\ threw' = rejected
                /\ UNCHANGED store
    /\ UNCHANGED <<nextId, lifecycle>>

\* app.delete('/restaurants/:id')
DeleteRestaurant(id, ok) ==
    /\ Dispatchable
    /\ req' = Request("DELETE", id, EmptyBody)
    /\ threw' = FALSE
    /\ IF Settles(ok) /\ WellFormed(id)
       THEN /\ storeCall' = "settled"
            /\ store' = FindByIdAndRemove(store, id)
            /\ responses' = <<ResEnd(204)>>
       ELSE /\ storeCall' = "rejected"
            /\ responses' = <<InternalServerError>>
            /\ UNCHANGED store
    /\ UNCHANGED <<nextId, lifecycle>>

\* app.use('*'): any request no route matches
CatchAll ==
    /\ Dispatchable
    /\ req' = Request("OTHER", NoId, EmptyBody)
    /\ storeCall' = "none"
    /\ responses' = <<NotFoundResponse>>
    /\ threw' = FALSE
    /\ UNCHANGED <<store, nextId, lifecycle>>

\* the exchange is over: the client has the response and the next request
\* can be followed
EndExchange ==
    /\ req # NoRequest
    /\ req' = NoRequest
    /\ storeCall' = "none"
    /\ responses' = <<>>
    /\ threw' = FALSE
    /\ UNCHANGED <<store, nextId, lifecycle>>

----------------------------------------------------------------------------
(* The server lifecycle. *)

\* neither runServer nor closeServer has a callback outstanding, and no
\* exchange is in progress
Quiescent ==
    /\ req = NoRequest
    /\ startPc \in {"idle", "resolved", "rejected"}
    /\ stopPc \in {"idle", "resolved", "rejected"}

\* the state runServer is called in: no connection, no listening socket
Unstarted ==
    /\ storeState = "disconnected"
    /\ server # "listening"

\* runServer(): mongoose.connect is issued and the promise is pending
RunServer ==
    /\ Quiescent
    /\ Unstarted
    /\ storeState' = "connecting"
    /\ startPc' = "connecting"
    /\ UNCHANGED <<store, nextId, server, stopPc, exchange>>

\* the callback of mongoose.connect: reject on err, else app.listen
ConnectCallback(err) ==
    /\ startPc = "connecting"
    /\ IF err
       THEN /\ storeState' = "disconnected"
            /\ startPc' = "rejected"
            /\ UNCHANGED server
       ELSE /\ storeState' = "connected"
            /\ startPc' = "binding"
            /\ server' = "binding"
    /\ UNCHANGED <<store, nextId, stopPc, exchange>>

\* the callback of app.listen: the socket accepts connections, resolve
ListenCallback ==
    /\ startPc = "binding"
    /\ server' = "listening"
    /\ startPc' = "resolved"
    /\ UNCHANGED <<store, nextId, storeState, stopPc, exchange>>

\* an 'error' handler that rejects and leaves the connection open
ListenErrorNoDisconnect ==
    /\ startPc = "binding"
    /\ server' = "failed"
    /\ startPc' = "rejected"
    /\ UNCHANGED <<store, nextId, storeState, stopPc, exchange>>

\* the 'error' handler of the server, for the error of a socket that cannot
\* be bound: mongoose.disconnect() is issued, not awaited, and the promise
\* is rejected
ListenError ==
    /\ startPc = "binding"
    /\ server' = "failed"
    /\ storeState' = "disconnecting"
    /\ startPc' = "rejected"
    /\ UNCHANGED <<store, nextId, stopPc, exchange>>

\* the disconnect issued by the 'error' handler completes
DisconnectDone ==
    /\ req = NoRequest
    /\ storeState = "disconnecting"
    /\ stopPc # "disconnecting"
    /\ storeState' = "disconnected"
    /\ UNCHANGED <<store, nextId, server, startPc, stopPc, exchange>>

\* closeServer(): mongoose.disconnect() is issued first, and the socket
\* goes on listening until its then callback runs
CloseServer ==
    /\ Quiescent
    /\ stopPc' = "disconnecting"
    /\ startPc' = "idle"
    /\ storeState' =
         IF storeState = "connected" THEN "disconnecting" ELSE storeState
    /\ UNCHANGED <<store, nextId, server, exchange>>

\* a then callback that resolves without closing the server
DisconnectThenNoClose ==
    /\ req = NoRequest
    /\ stopPc = "disconnecting"
    /\ storeState' = "disconnected"
    /\ stopPc' = IF server = "listening" THEN "resolved" ELSE "rejected"
    /\ UNCHANGED <<store, nextId, server, startPc, exchange>>

\* the then callback of mongoose.disconnect() in closeServer: server.close.
\* It throws when server is still undefined and calls back with an error
\* when the server is not listening; both reject the promise.
DisconnectThen ==
    /\ req = NoRequest
    /\ stopPc = "disconnecting"
    /\ storeState' = "disconnected"
    /\ IF server = "listening"
       THEN /\ server' = "closing"
            /\ stopPc' = "closing"
       ELSE /\ stopPc' = "rejected"
            /\ UNCHANGED server
    /\ UNCHANGED <<store, nextId, startPc, exchange>>

\* the callback of server.close: the socket is closed, resolve
CloseCallback ==
    /\ stopPc = "closing"
    /\ server' = "closed"
    /\ stopPc' = "resolved"
    /\ UNCHANGED <<store, nextId, storeState, startPc, exchange>>

----------------------------------------------------------------------------
(* The specification of the server: lifecycle and requests. *)

\* the path ids of the requests: every id the store can assign, and one
\* that is no ObjectId
PathIds == {IdOf(i) : i \in 1..MaxIds} \cup {BadId}

\* the bodies of the POST requests: every choice of the required keys
\* without the optional ones, and all keys with empty values
PostBodies ==
    {Body(NoId, ks, "a") : ks \in SUBSET {"name", "borough", "cuisine"}}
        \cup {Body(NoId, Fields, "")}

\* the field keys of the PUT bodies: none, one updateable field, the field
\* that is not updateable alone and with an updateable one, the other
\* updateable fields, all fields
PutKeySets ==
    {{}, {"name"}, {"grades"}, {"name", "grades"},
     {"borough", "cuisine", "address"}, Fields}

\* the bodies of the PUT requests: no id, the path id or another id
PutBodies ==
    {Body(bid, ks, "b") : bid \in {NoId} \cup PathIds, ks \in PutKeySets}

Init ==
    /\ store = [i \in {} |-> [f \in Fields |-> Undefined]]
    /\ nextId = 1
    /\ storeState = "disconnected"
    /\ server = "undefined"
    /\ startPc = "idle"
    /\ stopPc = "idle"
    /\ req = NoRequest
    /\ storeCall = "none"
    /\ responses = <<>>
    /\ threw = FALSE

Next ==
    \/ RunServer
    \/ \E err \in BOOLEAN : ConnectCallback(err)
    \/ ListenCallback
    \/ ListenError
    \/ DisconnectDone
    \/ CloseServer
    \/ DisconnectThen
    \/ CloseCallback
    \/ \E ok \in BOOLEAN : GetRestaurants(ok)
    \/ \E id \in PathIds, ok \in BOOLEAN : GetRestaurantById(id, ok)
    \/ \E body \in PostBodies, ok \in BOOLEAN : PostRestaurant(body, ok)
    \/ \E id \in PathIds, body \in PutBodies, ok \in BOOLEAN :
          PutRestaurant(id, body, ok)
    \/ \E id \in PathIds, ok \in BOOLEAN : DeleteRestaurant(id, ok)
    \/ CatchAll
    \/ EndExchange

Spec == Init /\ [][Next]_vars

----------------------------------------------------------------------------
(* The listing specification: a started server over a preloaded           *)
(* collection, large enough for the limit of GET /restaurants to matter.   *)

\* a document of the preloaded collection
SeedDoc == [f \in Fields |-> "a"]

\* the ids of the largest preloaded collection
ListIds == {IdOf(i) : i \in 1..MaxColl}

InitList ==
    /\ \E n \in 0..MaxColl :
          /\ store = [i \in {IdOf(k) : k \in 1..n} |-> SeedDoc]
          /\ nextId = n + 1
    /\ storeState = "connected"
    /\ server = "listening"
    /\ startPc = "resolved"
    /\ stopPc = "idle"
    /\ req = NoRequest
    /\ storeCall = "none"
    /\ responses = <<>>
    /\ threw = FALSE

NextList ==
    \/ \E ok \in BOOLEAN : GetRestaurants(ok)
    \/ \E id \in ListIds, ok \in BOOLEAN : DeleteRestaurant(id, ok)
    \/ EndExchange

SpecList == InitList /\ [][NextList]_vars

----------------------------------------------------------------------------
(* The properties of the specification, stated on the requests and the     *)
(* responses and without the operators of the handlers.                    *)

\* the path id and the body id of request r are both present and equal
SameIds(r) ==
    /\ r.id # ""
    /\ "id" \in DOMAIN r.body
    /\ r.body["id"] # ""
    /\ r.body["id"] = r.id

\* the ids the store has assigned so far
AssignedIds == {IdOf(k) : k \in 1..(nextId - 1)}

\* the representation of the document d stored under id i
ReprOf(i, d) ==
    [id |-> i, name |-> d["name"], borough |-> d["borough"],
     cuisine |-> d["cuisine"], address |-> d["address"], grades |-> d["grades"]]

\* the one response a handler writes on a store failure
Generic500 ==
    <<[status |-> 500, kind |-> "json", message |-> "Internal server error",
       items |-> <<>>]>>

\* the one response of a PUT or DELETE that went through
Empty204 ==
    <<[status |-> 204, kind |-> "empty", message |-> "", items |-> <<>>]>>

\* C1: a PUT whose path id and body id are not both present and equal is
\* answered 400 and updates nothing: every stored restaurant is as it was,
\* whatever updateable fields the body carries.
C1_MismatchedPutChangesNothing ==
    [][(req'.method = "PUT" /\ ~SameIds(req'))
          => /\ responses'[1].status = 400
             /\ store' = store]_vars

\* C2: a PUT with matching ids that the store carries out is answered 204
\* and sets, in the restaurant with that id, exactly the fields among name,
\* borough, cuisine and address that are keys of the body to the body's
\* values; every other field of it (grades, also when sent) and every other
\* restaurant stay as they were, no restaurant appears or disappears, and a
\* GET of an id returns the representation of what is stored.  When the
\* store rejects the update nothing changes and the answer is 500.
C2_PutMergePatch ==
    [][/\ (req'.method = "PUT" /\ SameIds(req') /\ storeCall' = "settled")
            => /\ responses' = Empty204
               /\ DOMAIN store' = DOMAIN store
               /\ \A i \in DOMAIN store : \A f \in Fields :
                    store'[i][f] =
                      IF /\ i = req'.id
                         /\ f \in {"name", "borough", "cuisine", "address"}
                         /\ f \in DOMAIN req'.body
                      THEN req'.body[f]
                      ELSE store[i][f]
       /\ (req'.method = "PUT" /\ SameIds(req') /\ storeCall' # "settled")
            => /\ responses' = Generic500
               /\ store' = store
       /\ (req'.method = "GET" /\ storeCall' = "settled" /\ req'.id \in DOMAIN store)
            => /\ store' = store
               /\ responses' =
                    <<[status |-> 200, kind |-> "repr", message |-> "",
                       items |-> <<ReprOf(req'.id, store[req'.id])>>]>>]_vars

\* a PUT with matching ids that carried name and grades went through: name
\* has the body's value, grades and borough have not, and another
\* restaurant is stored beside it
C2_Witness ==
    /\ req.method = "PUT"
    /\ SameIds(req)
    /\ responses = Empty204
    /\ req.id \in DOMAIN store
    /\ {"name", "grades"} \subseteq DOMAIN req.body
    /\ "borough" \notin DOMAIN req.body
    /\ store[req.id]["name"] = req.body["name"]
    /\ store[req.id]["grades"] # req.body["grades"]
    /\ store[req.id]["borough"] # req.body["name"]
    /\ DOMAIN store # {req.id}

\* C3: a POST whose body lacks one of the keys name, borough, cuisine is
\* answered 400 with the text naming the first missing key in that order,
\* and creates nothing; a body with the three keys, whatever their values,
\* is never answered 400.
C3_PostRequiredFields ==
    [][req'.method = "POST"
          => LET keys == DOMAIN req'.body
                 first == IF "name" \notin keys THEN "name"
                          ELSE IF "borough" \notin keys THEN "borough"
                          ELSE "cuisine"
             IN  IF {"name", "borough", "cuisine"} \subseteq keys
                 THEN \A k \in 1..Len(responses') : responses'[k].status # 400
                 ELSE /\ responses' =
                           <<[status |-> 400, kind |-> "text",
                              message |-> "Missing '" \o first \o "' in request body",
                              items |-> <<>>]>>
                      /\ storeCall' = "none"
                      /\ store' = store
                      /\ nextId' = nextId]_vars

\* a POST with name but neither borough nor cuisine was answered 400 naming
\* borough
C3_Witness ==
    /\ req.method = "POST"
    /\ DOMAIN req.body = {"name"}
    /\ Len(responses) = 1
    /\ responses[1].status = 400
    /\ responses[1].message = "Missing 'borough' in request body"

\* C4 as claimed: a GET, a PUT with matching ids or a DELETE naming an id
\* that is not in the store is answered 500 with the generic body.
C4_AbsentIdIs500 ==
    [][(/\ req'.method \in {"GET", "PUT", "DELETE"}
        /\ req'.method = "PUT" => SameIds(req')
        /\ req'.id \notin DOMAIN store)
          => responses' = Generic500]_vars

\* C4 as amended: for an id that is not in the store, GET answers 500 with
\* the generic body; PUT with matching ids and DELETE leave the store as it
\* was and answer 204 when the store call settles, which it does not for an
\* id that is no ObjectId, and 500 with the generic body when it rejects.
C4_AbsentIdOutcome ==
    [][(/\ req'.method \in {"GET", "PUT", "DELETE"}
        /\ req'.method = "PUT" => SameIds(req')
        /\ req'.id \notin DOMAIN store)
          => /\ store' = store
             /\ req'.id = BadId => storeCall' = "rejected"
             /\ responses' =
                  IF req'.method # "GET" /\ storeCall' = "settled"
                  THEN Empty204
                  ELSE Generic500]_vars

\* a PUT with matching ids named an id that is not in the store and was
\* answered 204
C4_Witness ==
    /\ req.method = "PUT"
    /\ SameIds(req)
    /\ req.id \notin DOMAIN store
    /\ responses = Empty204

\* C5: a DELETE of a stored id that is answered 204 removes the restaurant;
\* an id the store has assigned and no longer holds never comes back, as
\* POST never reuses an id; and a GET of such an id is answered 500.
C5_DeletedStaysGone ==
    [][\A i \in AssignedIds :
          /\ (req'.method = "DELETE" /\ req'.id = i /\ responses' = Empty204)
                => i \notin DOMAIN store'
          /\ i \notin DOMAIN store => i \notin DOMAIN store'
          /\ (req'.method = "GET" /\ req'.id = i /\ i \notin DOMAIN store)
                => responses' = Generic500]_vars

\* a GET of an id that was assigned and deleted reached the store and was
\* answered 500
C5_Witness ==
    /\ req.method = "GET"
    /\ req.id \in AssignedIds
    /\ req.id \notin DOMAIN store
    /\ storeCall = "settled"
    /\ responses = Generic500

C7_StopReleasesStoreAndSocket ==
    /\ (stopPc = "resolved" /\ startPc = "idle")
          => (storeState = "disconnected" /\ server = "closed" /\ Unstarted)
    /\ (stopPc = "resolved" /\ startPc = "resolved")
          => (storeState = "connected" /\ server = "listening")

\* a runServer resolved after a closeServer resolved
C7_Witness ==
    /\ stopPc = "resolved"
    /\ startPc = "resolved"
    /\ server = "listening"

\* C8: the list GET /restaurants returns has at most 10 items, and every
\* item is the representation of a restaurant in the store.
C8_ListAtMostTen ==
    (req.method = "GET_LIST" /\ storeCall = "settled")
       => /\ Len(responses) = 1
          /\ responses[1].status = 200
          /\ Len(responses[1].items) <= 10
          /\ \A k \in 1..Len(responses[1].items) :
                \E i \in DOMAIN store : responses[1].items[k] = ReprOf(i, store[i])

\* the list of a collection of more than 10 restaurants has 10 items
C8_Witness ==
    /\ req.method = "GET_LIST"
    /\ storeCall = "settled"
    /\ Cardinality(DOMAIN store) > 10
    /\ Len(responses[1].items) = 10

\* C9: whenever the socket accepts connections the store is connected.
C9_ListeningImpliesConnected ==
    server = "listening" => storeState = "connected"

\* C10: every request gets exactly one write of a response, and nothing
\* is thrown past its handler.
C10_ExactlyOneResponse ==
    req # NoRequest => (Len(responses) = 1 /\ ~threw)

====
